---- MODULE Spec2Model ----
(***************************************************************************)
(* Model of backends/bmv2/bmv2stf.py: the driver that runs the BMv2        *)
(* behavioral model (simple_switch) and its CLI on an STF test file.       *)
(*                                                                         *)
(*  - ConcurrentInteger: the cross-process port lease (lock directories)   *)
(*  - RunBMV2: translation of STF statements, orchestration of the two     *)
(*    processes and the fifos, comparison of the captured packets          *)
(*  - run_model: generate_model_inputs, run, checkOutputs                  *)
(***************************************************************************)
EXTENDS Integers, Sequences, FiniteSets, TLC

\* ------------------------------------------------------------------ bounds

\* number of concurrent callers of ConcurrentInteger (concurrent test runs)
NumCallers == 2
\* ConcurrentInteger.max as used by the lease specifications: range 0..MaxInt
MaxInt == 1

\* --------------------------------------------------------- program constants

SUCCESS == 0
FAILURE == 1
\* generate(): "try 10 times", for i in range(0, 10)
Tries == 10
\* the value generate() returns when every try failed
None == -1

Callers == 1 .. NumCallers
Range == 0 .. MaxInt

VARIABLES
    \* ---- ConcurrentInteger (shared by every run in the same directory)
    locks,       \* the lock_<n> directories that exist in the shared folder
    gpc,         \* per caller: where it is in generate()/release()
    tries,       \* per caller: the loop variable i of generate()
    rand,        \* per caller: the value generate() returned (None: none yet)
    made,        \* per caller: number of os.makedirs calls that succeeded
    collisions,  \* per caller: number of os.makedirs calls that raised
    \* ---- one run of run_model
    stf,         \* the STF file: a sequence of statements (lines)
    rpc,         \* where run_model / run is
    ln,          \* the index of the current loop (line of the file, interface)
    interfaces,  \* self.interfaces: name -> "absent" | "fifo" | "open" | "closed"
    expected,    \* self.expected: name -> sequence of expected patterns
    packetDelay, \* self.packetDelay, in milliseconds
    sw,          \* the simple_switch process: "none" | "running" | "exited"
    swRet,       \* sw.returncode (None until sw.wait() returned)
    cli,         \* the simple_switch_CLI process: "none" | "running" | "exited"
    cliStdin,    \* cli.stdin: "none" | "open" | "closed"
    cliRet,      \* cli.returncode (None until cli.wait() returned)
    exc,         \* the exception being propagated ("" when none)
    retval,      \* the value of a return statement executed inside the try
    runResult,   \* what run() returned (None: not returned)
    checked,     \* checkOutputs was executed
    checkResult, \* what checkOutputs returned (None: not returned)
    modelResult, \* what run_model returned (None: not returned)
    trace,       \* history: the externally visible steps of the run, in order
    \* ---- comparePacket on its own
    cmpExpected, \* the expected pattern (a string)
    cmpReceived, \* the received packet (a byte string)
    cmpResult,   \* what comparePacket returned (None: not called)
    \* ---- checkOutputs on its own
    verExpected, \* self.expected: interface -> the patterns expected on it
    verFiles,    \* interface -> the capture file the engine left for it
    verOutcome,  \* how checkOutputs ended (NotCalled: not called)
    \* ---- TableKeyInstance.makeMask on its own
    mskValue,    \* the value given to makeMask: a prefix and its digits
    mskConcrete, \* a concrete digit string of the same length
    mskResult,   \* what makeMask returned (NotCalled: not called)
    \* ---- parse_table_add / parse_table_set_default on their own
    trStatement, \* the statement given to the translator
    trResult,    \* what the translator did with it (NotCalled: not called)
    \* ---- run_timeout: the calling thread and the watcher thread
    toArgs,      \* the arguments: is stderr given, is options.verbose set
    tmain,       \* where the calling thread is in run_timeout
    twatcher,    \* where the watcher thread is in target()
    process,     \* local.process: "None" or "Popen"
    child,       \* the spawned process: "none" | "running" | "exited" | "reaped"
    status,      \* the exit status of the spawned process (None while it runs)
    returncode,  \* local.process.returncode (None until wait() returned)
    toResult,    \* what run_timeout returned (NotCalled: not returned)
    toExc,       \* the exception run_timeout let through ("" when none)
    tlog         \* history: what the calling thread did, as a set of names

leaseVars == <<locks, gpc, tries, rand, made, collisions>>
runVars ==
    <<stf, rpc, ln, interfaces, expected, packetDelay, sw, swRet, cli, cliStdin,
      cliRet, exc, retval, runResult, checked, checkResult, modelResult, trace>>
cmpVars == <<cmpExpected, cmpReceived, cmpResult>>
verVars == <<verExpected, verFiles, verOutcome>>
maskVars == <<mskValue, mskConcrete, mskResult>>
trVars == <<trStatement, trResult>>
toVars ==
    <<toArgs, tmain, twatcher, process, child, status, returncode, toResult,
      toExc, tlog>>
unitVars == <<verVars, maskVars, trVars, toVars>>
vars == <<leaseVars, runVars, cmpVars, unitVars>>

\* a result variable holds <<>> before the call it belongs to and <<r>> after
\* the call ended with r
NotCalled == <<>>
Ended(r) == <<r>>

\* ------------------------------------------------------------ run_timeout
\* The calling thread (tmain) and the thread running target() (twatcher).
\* The spawned process is "running" until it exits by itself or is signalled,
\* "exited" until wait() has collected its status, and "reaped" after that.

\* the status of a process killed by SIGTERM
Terminated == -15
\* the exit codes of a process that ends by itself
ExitCodes == {0, 1}

\* one step of the calling thread: tmain and what it notes in the history
MainStep(to, note) ==
    /\ tmain' = to
    /\ tlog' = tlog \cup note

\* local.process = None; thread = Thread(target=target); thread.start()
ThreadStart ==
    /\ tmain = "idle"
    /\ toResult = NotCalled
    /\ twatcher' = "started"
    /\ MainStep("join_timeout", {})
    /\ UNCHANGED <<toArgs, process, child, status, returncode, toResult, toExc>>

\* target(): procstderr = open(stderr, "w") when stderr is given; the open
\* may raise, which ends the thread
TargetOpenStderr ==
    /\ twatcher = "started"
    /\ \/ twatcher' = "popen"
       \/ toArgs.stderr /\ twatcher' = "died"
    /\ UNCHANGED <<toArgs, tmain, process, child, status, returncode, toResult,
                   toExc, tlog>>

\* target(): Popen(args, stderr=procstderr) creates the process, or raises
TargetPopen ==
    /\ twatcher = "popen"
    /\ \/ child' = "running" /\ twatcher' = "assign"
       \/ twatcher' = "died" /\ UNCHANGED child
    /\ UNCHANGED <<toArgs, tmain, process, status, returncode, toResult, toExc,
                   tlog>>

\* target(): local.process = <the Popen object>
TargetAssign ==
    /\ twatcher = "assign"
    /\ process' = "Popen"
    /\ twatcher' = "wait"
    /\ UNCHANGED <<toArgs, tmain, child, status, returncode, toResult, toExc,
                   tlog>>

\* the spawned process ends by itself
ChildExits ==
    /\ child = "running"
    /\ child' = "exited"
    /\ status' \in ExitCodes
    /\ UNCHANGED <<toArgs, tmain, twatcher, process, returncode, toResult,
                   toExc, tlog>>

\* target(): local.process.wait() returns once the process has ended, and
\* the thread ends
TargetWait ==
    /\ twatcher = "wait"
    /\ child = "exited"
    /\ child' = "reaped"
    /\ returncode' = status
    /\ twatcher' = "finished"
    /\ UNCHANGED <<toArgs, tmain, process, status, toResult, toExc, tlog>>

\* the thread has ended: thread.is_alive() is False, join() returns
ThreadEnded == twatcher \in {"finished", "died"}

\* thread.join(timeout) returns: the thread has ended, or the timeout elapsed
JoinTimeout ==
    /\ tmain = "join_timeout"
    /\ MainStep("is_alive", {})
    /\ UNCHANGED <<toArgs, twatcher, process, child, status, returncode,
                   toResult, toExc>>

\* if thread.is_alive(): print("Timeout ", ...)
IsAlive ==
    /\ tmain = "is_alive"
    /\ IF ThreadEnded THEN MainStep("check", {})
       ELSE MainStep("terminate", {"timeout"})
    /\ UNCHANGED <<toArgs, twatcher, process, child, status, returncode,
                   toResult, toExc>>

\* local.process.terminate(): AttributeError while local.process is None;
\* os.kill(pid, SIGTERM) otherwise, which raises OSError when wait() has
\* already collected the process
Terminate ==
    /\ tmain = "terminate"
    /\ IF process = "None"
       THEN /\ toExc' = "AttributeError"
            /\ MainStep("raised", {})
            /\ UNCHANGED <<child, status>>
       ELSE IF child = "reaped"
       THEN /\ toExc' = "OSError"
            /\ MainStep("raised", {})
            /\ UNCHANGED <<child, status>>
       ELSE /\ MainStep("join", {"terminate"})
            /\ IF child = "running"
               THEN child' = "exited" /\ status' = Terminated
               ELSE UNCHANGED <<child, status>>
            /\ UNCHANGED toExc
    /\ UNCHANGED <<toArgs, twatcher, process, returncode, toResult>>

\* thread.join() returns when the thread has ended
Join ==
    /\ tmain = "join"
    /\ ThreadEnded
    /\ MainStep("check", {"joined"})
    /\ UNCHANGED <<toArgs, twatcher, process, child, status, returncode,
                   toResult, toExc>>

\* if local.process is None: return -1; return local.process.returncode
Return ==
    /\ tmain = "check"
    /\ toResult' = Ended(IF process = "None" THEN -1 ELSE returncode)
    /\ MainStep("returned", {})
    /\ UNCHANGED <<toArgs, twatcher, process, child, status, returncode, toExc>>

\* ------------------------------------------------------ ConcurrentInteger

\* lockName(value) = "lock_" + str(value): one directory name per integer,
\* so a directory is identified with its integer
lockName(value) == value

\* os.makedirs on a variant that does not fail when the directory exists
makedirs_exist_ok(file) == TRUE

\* os.makedirs(file): atomic create-if-absent, raises when the name exists
makedirs(file) == file \notin locks

\* generate() is entered: i = 0
GenerateEnter(p) ==
    /\ gpc[p] = "idle"
    /\ gpc' = [gpc EXCEPT ![p] = "loop"]
    /\ tries' = [tries EXCEPT ![p] = 0]
    /\ UNCHANGED <<locks, rand, made, collisions>>

\* an iteration whose os.makedirs succeeds but that goes on with the loop
GenerateClaimGoesOn(p) ==
    /\ gpc[p] = "loop"
    /\ tries[p] < Tries
    /\ \E index \in Range :
        /\ makedirs(lockName(index))
        /\ locks' = locks \cup {lockName(index)}
        /\ rand' = [rand EXCEPT ![p] = index]
    /\ made' = [made EXCEPT ![p] = @ + 1]
    /\ tries' = [tries EXCEPT ![p] = @ + 1]
    /\ UNCHANGED <<gpc, collisions>>

\* one iteration of the loop whose os.makedirs succeeds: return index
GenerateClaim(p) ==
    /\ gpc[p] = "loop"
    /\ tries[p] < Tries
    /\ \E index \in Range :
        /\ makedirs(lockName(index))
        /\ locks' = locks \cup {lockName(index)}
        /\ rand' = [rand EXCEPT ![p] = index]
    /\ made' = [made EXCEPT ![p] = @ + 1]
    /\ gpc' = [gpc EXCEPT ![p] = "held"]
    /\ UNCHANGED <<tries, collisions>>

\* a collision that leaves the loop (break) instead of going on (continue)
GenerateCollideGivesUp(p) ==
    /\ gpc[p] = "loop"
    /\ tries[p] < Tries
    /\ \E index \in Range : ~ makedirs(lockName(index))
    /\ collisions' = [collisions EXCEPT ![p] = @ + 1]
    /\ gpc' = [gpc EXCEPT ![p] = "exhausted"]
    /\ rand' = [rand EXCEPT ![p] = None]
    /\ UNCHANGED <<locks, tries, made>>

\* one iteration whose os.makedirs raises: sleep(1), continue with i + 1
GenerateCollide(p) ==
    /\ gpc[p] = "loop"
    /\ tries[p] < Tries
    /\ \E index \in Range : ~ makedirs(lockName(index))
    /\ collisions' = [collisions EXCEPT ![p] = @ + 1]
    /\ tries' = [tries EXCEPT ![p] = @ + 1]
    /\ UNCHANGED <<locks, gpc, rand, made>>

\* the loop ran out: return None
GenerateExhausted(p) ==
    /\ gpc[p] = "loop"
    /\ tries[p] = Tries
    /\ gpc' = [gpc EXCEPT ![p] = "exhausted"]
    /\ rand' = [rand EXCEPT ![p] = None]
    /\ UNCHANGED <<locks, tries, made, collisions>>

\* release(value): os.rmdir(lockName(value))
Release(p) ==
    /\ gpc[p] = "held"
    /\ lockName(rand[p]) \in locks
    /\ locks' = locks \ {lockName(rand[p])}
    /\ gpc' = [gpc EXCEPT ![p] = "released"]
    /\ UNCHANGED <<tries, rand, made, collisions>>

Generate(p) ==
    \/ GenerateEnter(p)
    \/ GenerateClaim(p)
    \/ GenerateCollide(p)
    \/ GenerateExhausted(p)

\* ------------------------------------------------- the program descriptor
\* What readJson builds from the compiled program: self.actions (a list,
\* indexed by action id) and self.tables.  One fixed program:
\*   actions  0: a0(x)   1: a1()   2: a2(y)
\*   tables   t0: key fields f, h[0]; actions a0, a1      t1: no key; action a2

ProgramActions ==
    << [name |-> "a0", args |-> <<"x">>],
       [name |-> "a1", args |-> <<>>],
       [name |-> "a2", args |-> <<"y">>] >>

TableNames == {"t0", "t1"}

\* BMV2Table.key.fields
TableFields(t) == IF t = "t0" THEN <<"f", "h[0]">> ELSE <<>>

\* BMV2Table.actions: action name -> action id
TableActions(t) ==
    IF t = "t0" THEN [n \in {"a0", "a1"} |-> IF n = "a0" THEN 0 ELSE 1]
    ELSE [n \in {"a2"} |-> 2]

SeqToSet(q) == {q[i] : i \in DOMAIN q}

\* ------------------------------------------------------- STF statements
\* One line of the STF file, after the comment is cut off:
\*   add <table> <field:value>... <action>(<arg:value>,...)
\*   setdefault <table> <action>(<arg:value>,...)
\*   packet <interface> <data>      expect <interface> <data>
\*   another first word, or an empty line
\* keys and args are the names assigned, in the order written.  prio is the
\* word an add statement has between the table and the key assignments
\* ("" when it has none).

Statement(op, table, keys, action, args, iface, data) ==
    [op |-> op, table |-> table, prio |-> "", keys |-> keys,
     action |-> action, args |-> args, iface |-> iface, data |-> data]

Add(table, keys, action, args) ==
    Statement("add", table, keys, action, args, "", <<>>)
AddPrio(table, prio, keys, action, args) ==
    [Add(table, keys, action, args) EXCEPT !.prio = prio]
SetDefault(table, action, args) ==
    Statement("setdefault", table, <<>>, action, args, "", <<>>)
Packet(iface, data) == Statement("packet", "", <<>>, "", <<>>, iface, data)
Expect(iface, data) == Statement("expect", "", <<>>, "", <<>>, iface, data)
Other == Statement("mirror", "", <<>>, "", <<>>, "", <<>>)
Blank == Statement("", "", <<>>, "", <<>>, "", <<>>)

\* ---------------------------------------------------- Command Translator

\* TableKeyInstance.set: a key written name$index addresses name[index]
ArrayRewrite(key) == IF key = "h$0" THEN "h[0]" ELSE key

\* the decimal digits, the characters maketrans maps to the mask digit
DecimalDigits == {"0", "1", "2", "3", "4", "5", "6", "7", "8", "9"}

\* a value as makeMask sees it: what value.startswith finds ("" when it is
\* none of 0x, 0b, 0o) and the characters after it
Value(prefix, digits) == [prefix |-> prefix, digits |-> digits]

\* mask = "F" / "1" / "7", by the prefix of the value
MaskDigit(prefix) ==
    CASE prefix = "0x" -> "F"
      [] prefix = "0b" -> "1"
      [] prefix = "0o" -> "7"

\* trans = maketrans("0123456789*", (mask * 10) + "0"): what translate() does
\* to one character; a character that is not in the table stays as it is
TranslateChar(c, mask) ==
    IF c \in DecimalDigits THEN mask
    ELSE IF c = "*" THEN "0"
    ELSE c

\* what makeMask gives: the exception raised, or the string
\* [prefix value &&& prefix mask] (masked), or the value itself (not masked)
Masked(prefix, value, mask) ==
    [err |-> "", masked |-> TRUE, prefix |-> prefix, value |-> value,
     mask |-> mask]
Unmasked(v) ==
    [err |-> "", masked |-> FALSE, prefix |-> v.prefix, value |-> v.digits,
     mask |-> <<>>]
MaskError(e) ==
    [err |-> e, masked |-> FALSE, prefix |-> "", value |-> <<>>, mask |-> <<>>]

\* TableKeyInstance.makeMask(value, ternary); without one of the three
\* prefixes the names mask and prefix are not bound when they are read
makeMask(v, ternary) ==
    IF ~ ternary THEN Unmasked(v)
    ELSE IF v.prefix \notin {"0x", "0b", "0o"} THEN MaskError("UnboundLocalError")
    ELSE LET mask == MaskDigit(v.prefix)
             m == [i \in DOMAIN v.digits |-> TranslateChar(v.digits[i], mask)]
             replaced == [i \in DOMAIN v.digits |->
                             IF v.digits[i] = "*" THEN "0" ELSE v.digits[i]]
         IN  Masked(v.prefix, replaced, m)

\* the outcome of translating a statement: the exception raised, or the
\* command; prio is how the command ends: <<>> for "", <<n>> for str(n);
\* ternary is the flag the key assignments were made with
Raise(e) == [err |-> e, cmd |-> "", prio |-> <<>>, ternary |-> FALSE]
Command(c) == [err |-> "", cmd |-> c, prio |-> <<>>, ternary |-> FALSE]
CommandPrio(c, n) == [err |-> "", cmd |-> c, prio |-> <<n>>, ternary |-> TRUE]

\* the characters of the words STF files have after the table name
Chars(word) ==
    CASE word = "1" -> <<"1">>
      [] word = "9999" -> <<"9", "9", "9", "9">>
      [] word = "10001" -> <<"1", "0", "0", "0", "1">>
      [] word = "5x" -> <<"5", "x">>
      [] word = "x5" -> <<"x", "5">>
      [] OTHER -> <<>>

\* number = re.compile("[0-9]+"); number.match(prio): a match at the start
\* of the word, whatever follows the digits
NumberMatch(word) == Chars(word) # <<>> /\ Chars(word)[1] \in DecimalDigits

DecimalDigitSeq == <<"0", "1", "2", "3", "4", "5", "6", "7", "8", "9">>

\* int(prio) of a word made of decimal digits
RECURSIVE DecimalValue(_)
DecimalValue(chars) ==
    IF chars = <<>> THEN 0
    ELSE 10 * DecimalValue(SubSeq(chars, 1, Len(chars) - 1))
         + (CHOOSE n \in 0 .. 9 : DecimalDigitSeq[n + 1] = chars[Len(chars)])

\* int(prio) raises ValueError on any other word
IntRaises(word) == \E i \in DOMAIN Chars(word) : Chars(word)[i] \notin DecimalDigits

\* "Hopefully 10000 is large enough"
PriorityBase == 10000

\* TableKeyInstance.set without the check of the field list
KeySetUnchecked(t, key) == TRUE

\* TableKeyInstance.set: the key must be one of the table's fields
KeySet(t, key) == ArrayRewrite(key) \in SeqToSet(TableFields(t))

\* actionByName: id = table.actions[actionName] (KeyError: None)
ActionByName(t, actionName) ==
    IF actionName \in DOMAIN TableActions(t)
    THEN TableActions(t)[actionName]
    ELSE None

\* BMV2ActionArguments.set: the key must be one of the action's arguments
ArgSet(id, key) == key \in SeqToSet(ProgramActions[id + 1].args)

\* BMV2ActionArguments.__str__: self.values[f.name] of every declared argument
ArgsRendered(id, args) ==
    SeqToSet(ProgramActions[id + 1].args) \subseteq SeqToSet(args)

\* parse_table_add: the table; the word after it, pushed back in front of the
\* key assignments when number.match fails; the key assignments left to
\* right; the action; its arguments left to right; int(prio); the rendering
parse_table_add(s) ==
    LET isPrio == NumberMatch(s.prio)
        keys == IF s.prio # "" /\ ~ isPrio THEN <<s.prio>> \o s.keys ELSE s.keys
        id == ActionByName(s.table, s.action)
    IN  IF s.table \notin TableNames THEN Raise("Could not find table")
        ELSE IF \E i \in DOMAIN keys : ~ KeySet(s.table, keys[i])
        THEN Raise("Unexpected key field")
        ELSE IF s.action # "" /\ id = None THEN Raise("KeyError")
        ELSE IF s.action # "" /\ \E i \in DOMAIN s.args : ~ ArgSet(id, s.args[i])
        THEN Raise("Unexpected action arg")
        ELSE IF isPrio /\ IntRaises(s.prio) THEN Raise("ValueError")
        ELSE IF s.action = "" THEN Raise("TypeError")
        ELSE IF ~ ArgsRendered(id, s.args) THEN Raise("KeyError in __str__")
        ELSE IF isPrio
        THEN CommandPrio("table_add", PriorityBase - DecimalValue(Chars(s.prio)))
        ELSE Command("table_add")

\* parse_table_set_default: the table, the action, its arguments, the rendering
parse_table_set_default(s) ==
    IF s.table \notin TableNames THEN Raise("Could not find table")
    ELSE LET id == ActionByName(s.table, s.action) IN
        IF id = None THEN Raise("KeyError")
        ELSE IF \E i \in DOMAIN s.args : ~ ArgSet(id, s.args[i])
        THEN Raise("Unexpected action arg")
        ELSE IF ~ ArgsRendered(id, s.args) THEN Raise("KeyError in __str__")
        ELSE Command("table_set_default")

\* the translation do_command asks for
Translate(s) ==
    IF s.op = "add" THEN parse_table_add(s) ELSE parse_table_set_default(s)

\* ------------------------------------------------------- Output Verifier

HexDigits ==
    <<"0", "1", "2", "3", "4", "5", "6", "7",
      "8", "9", "A", "B", "C", "D", "E", "F">>

\* ByteToHex(byteStr) with the blanks removed: "%02X" of every byte
RECURSIVE ByteToHex(_)
ByteToHex(byteStr) ==
    IF byteStr = <<>> THEN <<>>
    ELSE <<HexDigits[(Head(byteStr) \div 16) + 1],
           HexDigits[(Head(byteStr) % 16) + 1]>> \o ByteToHex(Tail(byteStr))

\* str.upper() on the characters a pattern is written with
UpperChar(c) ==
    CASE c = "a" -> "A"
      [] c = "b" -> "B"
      [] OTHER -> c

Upper(str) == [i \in DOMAIN str |-> UpperChar(str[i])]

\* the loop of comparePacket from position i (1-based) on
RECURSIVE CompareFrom(_, _, _)
CompareFrom(e, r, i) ==
    IF i > Len(e) THEN SUCCESS
    ELSE IF e[i] = "*" THEN CompareFrom(e, r, i + 1)
    ELSE IF e[i] # r[i] THEN FAILURE
    ELSE CompareFrom(e, r, i + 1)

\* comparePacket that wants the two strings to have the same length
comparePacketSameLength(expect, received) ==
    LET r == Upper(ByteToHex(received))
        e == Upper(expect)
    IN  IF Len(r) # Len(e) THEN FAILURE ELSE CompareFrom(e, r, 1)

\* comparePacket(expected, received): received is the captured packet
comparePacket(expect, received) ==
    LET r == Upper(ByteToHex(received))
        e == Upper(expect)
    IN  IF Len(r) < Len(e) THEN FAILURE ELSE CompareFrom(e, r, 1)

\* one output capture file: "missing" (os.stat raises), "empty" (st_size is
\* 0), "corrupt" (rdpcap raises) or "ok" with the packets rdpcap reads from it
CaptureFile(state, packets) == [state |-> state, packets |-> packets]

\* how checkOutputs ends: with an exception, or with the value it returns
\* after the error it reported ("" when none)
Returns(v, msg) == [exc |-> "", ret |-> v, msg |-> msg]
Throws(e) == [exc |-> e, ret |-> None, msg |-> ""]

\* for i in range(0, len(expected)): cmp = self.comparePacket(expected[i],
\* packets[i]); FAILURE at the first packet that differs
RECURSIVE ComparePackets(_, _, _)
ComparePackets(exp, packets, i) ==
    IF i > Len(exp) THEN SUCCESS
    ELSE IF comparePacket(exp[i], packets[i]) # SUCCESS THEN FAILURE
    ELSE ComparePackets(exp, packets, i + 1)

\* the body of the loop with a count test that lets extra packets through
CheckInterfaceAtLeast(exp, file) ==
    IF file.state = "missing" THEN Throws("OSError")
    ELSE IF file.state = "corrupt" THEN Returns(FAILURE, "Corrupt pcap file")
    ELSE LET packets == IF file.state = "empty" THEN <<>> ELSE file.packets
         IN  IF Len(exp) > Len(packets)
             THEN Returns(FAILURE, "Expected packets")
             ELSE IF ComparePackets(exp, packets, 1) # SUCCESS
             THEN Returns(FAILURE, "Packet differs")
             ELSE Returns(SUCCESS, "")

\* the body of the loop of checkOutputs for one interface: the file is
\* stat'ed and read, the counts are compared, then the packets one by one;
\* Returns(SUCCESS, "") stands for going on with the next interface
CheckInterface(exp, file) ==
    IF file.state = "missing" THEN Throws("OSError")
    ELSE IF file.state = "corrupt" THEN Returns(FAILURE, "Corrupt pcap file")
    ELSE LET packets == IF file.state = "empty" THEN <<>> ELSE file.packets
         IN  IF Len(exp) # Len(packets)
             THEN Returns(FAILURE, "Expected packets")
             ELSE IF ComparePackets(exp, packets, 1) # SUCCESS
             THEN Returns(FAILURE, "Packet differs")
             ELSE Returns(SUCCESS, "")

\* checkOutputs: for interface, expected in self.expected.iteritems(), in
\* the order the dictionary yields them; the first interface that fails or
\* raises ends the call
RECURSIVE checkOutputs(_, _, _)
checkOutputs(order, exp, files) ==
    IF order = <<>> THEN Returns(SUCCESS, "")
    ELSE LET r == CheckInterface(exp[Head(order)], files[Head(order)])
         IN  IF r # Returns(SUCCESS, "") THEN r
             ELSE checkOutputs(Tail(order), exp, files)

\* the orders in which iteritems() may yield the keys of a dictionary
Orders(S) ==
    {q \in [1 .. Cardinality(S) -> S] :
        \A j, k \in 1 .. Cardinality(S) : j # k => q[j] # q[k]}

\* ---------------------------------------------------- Process Orchestrator

\* the caller of ConcurrentInteger that is the modelled run
Main == CHOOSE p \in Callers : \A q \in Callers : p <= q

\* the interface names STF files use, and their order as Python strings
Ifaces == {"a", "b", "c"}
IfaceRank(i) == CASE i = "a" -> 1 [] i = "b" -> 2 [] OTHER -> 3

\* sw.returncode of a process killed by SIGTERM
SigTerm == -15
\* self.packetDelay = 0.1 after a CLI command, in milliseconds
CommandDelay == 100

\* an entry of the history of the run
Event(ev, iface, line, delay) ==
    [ev |-> ev, iface |-> iface, line |-> line, delay |-> delay]

Log(ev) == trace' = Append(trace, Event(ev, "", 0, 0))

\* the keys of self.interfaces
Declared == {i \in Ifaces : interfaces[i] # "absent"}

\* sorted(self.interfaces)
Sorted(S) ==
    CHOOSE q \in [1 .. Cardinality(S) -> S] :
        \A j, k \in 1 .. Cardinality(S) :
            j < k => IfaceRank(q[j]) < IfaceRank(q[k])

\* the interface arguments listed in the order in which the fifos were made
interfaceArgsAsCreated ==
    LET fifos == SelectSeq(trace, LAMBDA e : e.ev = "mkfifo")
    IN  [k \in DOMAIN fifos |-> fifos[k].iface]

\* interfaceArgs(): one "-i <name>@pcap<name>" per interface, for interface
\* in sorted(self.interfaces); an argument is identified with its interface
interfaceArgs == Sorted(Declared)

\* the interface arguments of the runswitch command line, as history entries
ArgEvents ==
    [k \in DOMAIN interfaceArgs |-> Event("arg", interfaceArgs[k], 0, 0)]

\* the fifos opened in the order in which generate_model_inputs made them
OpenOrderAsCreated ==
    LET fifos == SelectSeq(trace, LAMBDA e : e.ev = "mkfifo")
    IN  [k \in DOMAIN fifos |-> fifos[k].iface]

\* the order in which run() opens the fifos: for interface in sorted(...)
OpenOrder == Sorted(Declared)

\* a scan that creates a fifo whenever a statement names an interface
NeedsFifoEveryTime(s) == s.op \in {"packet", "expect"}

\* generate_model_inputs: first == "packet" or first == "expect", and
\* not interface in self.interfaces
NeedsFifo(s) == s.op \in {"packet", "expect"} /\ interfaces[s.iface] = "absent"

\* generate_model_inputs, one line of the file: the fifo of an interface
\* that is not yet in self.interfaces is created
GenerateModelInputsLine ==
    /\ rpc = "generate_model_inputs"
    /\ ln <= Len(stf)
    /\ LET s == stf[ln] IN
        IF NeedsFifo(s)
        THEN /\ interfaces' = [interfaces EXCEPT ![s.iface] = "fifo"]
             /\ trace' = Append(trace, Event("mkfifo", s.iface, ln, 0))
        ELSE UNCHANGED <<interfaces, trace>>
    /\ ln' = ln + 1
    /\ UNCHANGED <<stf, rpc, expected, packetDelay, sw, swRet, cli, cliStdin,
                   cliRet, exc, retval, runResult, checked, checkResult,
                   modelResult, leaseVars, cmpVars, unitVars>>

\* generate_model_inputs returns SUCCESS and run_model calls run()
GenerateModelInputsReturn ==
    /\ rpc = "generate_model_inputs"
    /\ ln > Len(stf)
    /\ rpc' = "run"
    /\ UNCHANGED <<stf, ln, interfaces, expected, packetDelay, sw, swRet, cli,
                   cliStdin, cliRet, exc, retval, runResult, checked,
                   checkResult, modelResult, trace, leaseVars, cmpVars, unitVars>>

\* run(): rand = concurrent.generate(), step by step
RunGenerate ==
    /\ rpc = "run"
    /\ Generate(Main)
    /\ UNCHANGED <<runVars, cmpVars, unitVars>>

\* run() without the test of rand: the engine is started with port None
RunNoPortUnchecked ==
    /\ rpc = "run"
    /\ gpc[Main] = "exhausted"
    /\ sw' = "running"
    /\ rpc' = "open_interfaces"
    /\ ln' = 1
    /\ trace' = trace \o ArgEvents \o <<Event("launch_switch", "", 0, 0)>>
    /\ UNCHANGED <<stf, interfaces, expected, packetDelay, swRet, cli, cliStdin,
                   cliRet, exc, retval, runResult, checked, checkResult,
                   modelResult, leaseVars, cmpVars, unitVars>>

\* rand is None: "Could not find a free port for Thrift", return FAILURE
RunNoPort ==
    /\ rpc = "run"
    /\ gpc[Main] = "exhausted"
    /\ runResult' = FAILURE
    /\ rpc' = "run_returned"
    /\ UNCHANGED <<stf, ln, interfaces, expected, packetDelay, sw, swRet, cli,
                   cliStdin, cliRet, exc, retval, checked, checkResult,
                   modelResult, trace, leaseVars, cmpVars, unitVars>>

\* an exception raised inside the try block: on to the finally clause
RaiseInTry(e) ==
    /\ exc' = e
    /\ rpc' = "finally"

\* runswitch = [...] + self.interfaceArgs() + [...];
\* sw = subprocess.Popen(runswitch, ...)
LaunchSwitch ==
    /\ rpc = "run"
    /\ gpc[Main] = "held"
    /\ \/ /\ sw' = "running"
          /\ rpc' = "open_interfaces"
          /\ ln' = 1
          /\ trace' = trace \o ArgEvents
                              \o <<Event("launch_switch", "", 0, 0)>>
          /\ UNCHANGED exc
       \/ /\ RaiseInTry("OSError")
          /\ UNCHANGED <<sw, ln, trace>>
    /\ UNCHANGED <<stf, interfaces, expected, packetDelay, swRet, cli, cliStdin,
                   cliRet, retval, runResult, checked, checkResult, modelResult,
                   leaseVars, cmpVars, unitVars>>

\* one iteration of "for interface in sorted(self.interfaces)":
\* RawPcapWriter(ifname) and fp._write_header(None)
OpenInterface ==
    /\ rpc = "open_interfaces"
    /\ ln <= Cardinality(Declared)
    /\ LET interface == OpenOrder[ln] IN
        \/ /\ interfaces' = [interfaces EXCEPT ![interface] = "open"]
           /\ trace' = trace \o <<Event("open", interface, 0, 0),
                                  Event("header", interface, 0, 0)>>
           /\ ln' = ln + 1
           /\ UNCHANGED <<rpc, exc>>
        \/ /\ RaiseInTry("IOError")
           /\ UNCHANGED <<interfaces, trace, ln>>
    /\ UNCHANGED <<stf, expected, packetDelay, sw, swRet, cli, cliStdin, cliRet,
                   retval, runResult, checked, checkResult, modelResult,
                   leaseVars, cmpVars, unitVars>>

\* the CLI started without waiting for the loop over the interfaces to end
LaunchCliEarly ==
    /\ rpc = "open_interfaces"
    /\ \/ /\ cli' = "running"
          /\ cliStdin' = "open"
          /\ rpc' = "stream"
          /\ ln' = 1
          /\ trace' = Append(trace, Event("launch_cli", "", 0, 0))
          /\ UNCHANGED exc
       \/ /\ RaiseInTry("OSError")
          /\ UNCHANGED <<cli, cliStdin, ln, trace>>
    /\ UNCHANGED <<stf, interfaces, expected, packetDelay, sw, swRet, cliRet,
                   retval, runResult, checked, checkResult, modelResult,
                   leaseVars, cmpVars, unitVars>>

\* cli = subprocess.Popen(runcli, ..., stdin=PIPE); self.cli_stdin = cli.stdin
LaunchCli ==
    /\ rpc = "open_interfaces"
    /\ ln > Cardinality(Declared)
    /\ \/ /\ cli' = "running"
          /\ cliStdin' = "open"
          /\ rpc' = "stream"
          /\ ln' = 1
          /\ trace' = Append(trace, Event("launch_cli", "", 0, 0))
          /\ UNCHANGED exc
       \/ /\ RaiseInTry("OSError")
          /\ UNCHANGED <<cli, cliStdin, ln, trace>>
    /\ UNCHANGED <<stf, interfaces, expected, packetDelay, sw, swRet, cliRet,
                   retval, runResult, checked, checkResult, modelResult,
                   leaseVars, cmpVars, unitVars>>

\* do_cli_command without the flush
do_cli_command_no_flush(line) ==
    /\ trace' = trace \o <<Event("cli_write", "", line, 0)>>
    /\ packetDelay' = CommandDelay

\* do_cli_command(cmd): write the command, flush, self.packetDelay = 0.1
do_cli_command(line) ==
    /\ trace' = trace \o <<Event("cli_write", "", line, 0),
                           Event("cli_flush", "", line, 0)>>
    /\ packetDelay' = CommandDelay

\* do_command, first == "add" or "setdefault":
\* self.do_cli_command(self.parse_table_...(cmd)); the write fails with a
\* broken pipe when the CLI has exited by itself
DoTableCommand(s) ==
    \/ /\ Translate(s).err # ""
       /\ RaiseInTry(Translate(s).err)
       /\ UNCHANGED <<trace, packetDelay, ln, cli>>
    \/ /\ Translate(s).err = ""
       /\ do_cli_command(ln)
       /\ ln' = ln + 1
       /\ UNCHANGED <<rpc, exc, cli>>
    \/ /\ Translate(s).err = ""
       /\ cli' = "exited"
       /\ RaiseInTry("IOError")
       /\ UNCHANGED <<trace, packetDelay, ln>>

\* do_command on a packet that leaves self.packetDelay as it is
DoPacketNoReset(s) ==
    /\ trace' = Append(trace, Event("packet", s.iface, ln, packetDelay))
    /\ UNCHANGED packetDelay
    /\ ln' = ln + 1
    /\ UNCHANGED <<rpc, exc, cli>>

\* do_command, first == "packet": sleep(self.packetDelay), write the packet
\* to the interface, flush, self.packetDelay = 0
DoPacket(s) ==
    /\ trace' = Append(trace, Event("packet", s.iface, ln, packetDelay))
    /\ packetDelay' = 0
    /\ ln' = ln + 1
    /\ UNCHANGED <<rpc, exc, cli>>

\* the body of "for line in i: self.do_command(line)" for one line
StreamLine ==
    /\ rpc = "stream"
    /\ ln <= Len(stf)
    /\ LET s == stf[ln] IN
        CASE s.op \in {"add", "setdefault"} ->
                /\ DoTableCommand(s)
                /\ UNCHANGED expected
          [] s.op = "packet" ->
                /\ DoPacket(s)
                /\ UNCHANGED expected
          [] s.op = "expect" ->
                /\ expected' = [expected EXCEPT ![s.iface] = Append(@, s.data)]
                /\ ln' = ln + 1
                /\ UNCHANGED <<trace, packetDelay, rpc, exc, cli>>
          [] OTHER ->
                /\ ln' = ln + 1
                /\ UNCHANGED <<trace, packetDelay, rpc, exc, cli, expected>>
    /\ UNCHANGED <<stf, interfaces, sw, swRet, cliStdin, cliRet, retval,
                   runResult, checked, checkResult, modelResult, leaseVars,
                   cmpVars, unitVars>>

\* the file is at its end: cli.stdin.close()
CloseCliStdin ==
    /\ rpc = "stream"
    /\ ln > Len(stf)
    /\ cliStdin' = "closed"
    /\ Log("close_stdin")
    /\ rpc' = "close_interfaces"
    /\ UNCHANGED <<stf, ln, interfaces, expected, packetDelay, sw, swRet, cli,
                   cliRet, exc, retval, runResult, checked, checkResult,
                   modelResult, leaseVars, cmpVars, unitVars>>

\* for interface, fp in self.interfaces.iteritems(): fp.close()
CloseInterfaces ==
    /\ rpc = "close_interfaces"
    /\ interfaces' =
           [i \in Ifaces |-> IF interfaces[i] = "open" THEN "closed"
                             ELSE interfaces[i]]
    /\ Log("close_interfaces")
    /\ rpc' = "cli_wait"
    /\ UNCHANGED <<stf, ln, expected, packetDelay, sw, swRet, cli, cliStdin,
                   cliRet, exc, retval, runResult, checked, checkResult,
                   modelResult, leaseVars, cmpVars, unitVars>>

\* what run() does with cli.returncode, ignoring it
AfterCliWaitIgnoring(code) ==
    /\ rpc' = "terminate"
    /\ UNCHANGED retval

\* if cli.returncode != 0: reportError(...); return FAILURE
AfterCliWait(code) ==
    IF code # 0
    THEN retval' = FAILURE /\ rpc' = "finally"
    ELSE rpc' = "terminate" /\ UNCHANGED retval

\* cli.wait(): the CLI exits with some code
CliWait ==
    /\ rpc = "cli_wait"
    /\ \E code \in {0, 1} :
        /\ cliRet' = code
        /\ AfterCliWait(code)
    /\ cli' = "exited"
    /\ Log("cli_wait")
    /\ UNCHANGED <<stf, ln, interfaces, expected, packetDelay, sw, swRet,
                   cliStdin, exc, runResult, checked, checkResult, modelResult,
                   leaseVars, cmpVars, unitVars>>

\* sw.terminate() without the sleep before it
SwitchTerminateNoDelay ==
    /\ rpc = "terminate"
    /\ trace' = trace \o <<Event("terminate", "", 0, 0)>>
    /\ rpc' = "sw_wait"
    /\ UNCHANGED <<stf, ln, interfaces, expected, packetDelay, sw, swRet, cli,
                   cliStdin, cliRet, exc, retval, runResult, checked,
                   checkResult, modelResult, leaseVars, cmpVars, unitVars>>

\* time.sleep(1); sw.terminate()
SwitchTerminate ==
    /\ rpc = "terminate"
    /\ trace' = trace \o <<Event("sleep", "", 0, 0),
                           Event("terminate", "", 0, 0)>>
    /\ rpc' = "sw_wait"
    /\ UNCHANGED <<stf, ln, interfaces, expected, packetDelay, sw, swRet, cli,
                   cliStdin, cliRet, exc, retval, runResult, checked,
                   checkResult, modelResult, leaseVars, cmpVars, unitVars>>

\* what run() does with sw.returncode, treating an unexpected one as fatal
AfterSwitchWaitFatal(code) ==
    IF code # SigTerm THEN retval' = FAILURE ELSE UNCHANGED retval

\* if sw.returncode != -15: reportError(...) -- and nothing else
AfterSwitchWait(code) == UNCHANGED retval

\* sw.wait(): the engine ends with some return code
SwitchWait ==
    /\ rpc = "sw_wait"
    /\ \E code \in {SigTerm, 1} :
        /\ swRet' = code
        /\ AfterSwitchWait(code)
    /\ sw' = "exited"
    /\ Log("sw_wait")
    /\ rpc' = "finally"
    /\ UNCHANGED <<stf, ln, interfaces, expected, packetDelay, cli, cliStdin,
                   cliRet, exc, runResult, checked, checkResult, modelResult,
                   leaseVars, cmpVars, unitVars>>

\* how run() ends after the finally clause: the exception goes on, or the
\* pending return value is returned, or the end of run() returns SUCCESS
RunEnds ==
    IF exc # "" THEN rpc' = "raised" /\ UNCHANGED runResult
    ELSE /\ rpc' = "run_returned"
         /\ runResult' = IF retval # None THEN retval ELSE SUCCESS

\* a finally clause that releases only when the try block ended normally
FinallyOnSuccessOnly ==
    /\ rpc = "finally"
    /\ IF exc = "" /\ retval = None
       THEN Release(Main) /\ Log("release")
       ELSE UNCHANGED <<leaseVars, trace>>
    /\ RunEnds
    /\ UNCHANGED <<stf, ln, interfaces, expected, packetDelay, sw, swRet, cli,
                   cliStdin, cliRet, exc, retval, checked, checkResult,
                   modelResult, cmpVars, unitVars>>

\* finally: concurrent.release(rand)
Finally ==
    /\ rpc = "finally"
    /\ Release(Main)
    /\ Log("release")
    /\ RunEnds
    /\ UNCHANGED <<stf, ln, interfaces, expected, packetDelay, sw, swRet, cli,
                   cliStdin, cliRet, exc, retval, checked, checkResult,
                   modelResult, cmpVars, unitVars>>

\* run_model: result = bmv2.run(); if result != SUCCESS: return result
RunModelReturnsFailure ==
    /\ rpc = "run_returned"
    /\ runResult # SUCCESS
    /\ modelResult' = runResult
    /\ rpc' = "done"
    /\ UNCHANGED <<stf, ln, interfaces, expected, packetDelay, sw, swRet, cli,
                   cliStdin, cliRet, exc, retval, runResult, checked,
                   checkResult, trace, leaseVars, cmpVars, unitVars>>

\* the capture files the engine may have left behind for one interface
CaptureChoices ==
    { CaptureFile("missing", <<>>), CaptureFile("corrupt", <<>>),
      CaptureFile("empty", <<>>),
      CaptureFile("ok", <<>>), CaptureFile("ok", << <<171>> >>),
      CaptureFile("ok", << <<186>> >>), CaptureFile("ok", << <<171>>, <<171>> >>) }

\* the interfaces that have registered expectations (keys of self.expected)
ExpectedInterfaces == {i \in Ifaces : expected[i] # <<>>}

\* run_model: result = bmv2.checkOutputs(); return result.  An exception of
\* checkOutputs (os.stat on a capture file that does not exist) goes through
RunModelChecksOutputs ==
    /\ rpc = "run_returned"
    /\ runResult = SUCCESS
    /\ checked' = TRUE
    /\ \E files \in [ExpectedInterfaces -> CaptureChoices] :
       \E order \in Orders(ExpectedInterfaces) :
        LET r == checkOutputs(order, expected, files)
        IN  IF r.exc # ""
            THEN /\ exc' = r.exc
                 /\ rpc' = "raised"
                 /\ UNCHANGED <<checkResult, modelResult>>
            ELSE /\ checkResult' = r.ret
                 /\ modelResult' = r.ret
                 /\ rpc' = "done"
                 /\ UNCHANGED exc
    /\ UNCHANGED <<stf, ln, interfaces, expected, packetDelay, sw, swRet, cli,
                   cliStdin, cliRet, retval, runResult, trace, leaseVars,
                   cmpVars, unitVars>>

\* --------------------------------------------- specification: one test run

\* the length of the STF files made of every kind of statement
MaxStfLines == 3
\* the length of the STF files made of packet and expect statements
MaxInterfaceLines == 4

SeqsUpTo(S, n) == UNION {[1 .. k -> S] : k \in 0 .. n}

AddOk == Add("t0", <<"f">>, "a0", <<"x">>)
AddUnknownTable == Add("tX", <<"f">>, "a0", <<"x">>)
SetDefaultOk == SetDefault("t0", "a1", <<>>)
SetDefaultUnknownAction == SetDefault("t0", "a2", <<"y">>)
PacketData == <<"A", "B">>
ExpectData == <<"A", "*">>

MixedStatements ==
    { AddOk, AddUnknownTable, SetDefaultOk, SetDefaultUnknownAction,
      Packet("a", PacketData), Packet("b", PacketData),
      Expect("b", ExpectData), Other }

InterfaceStatements ==
    { Packet("a", PacketData), Packet("b", PacketData),
      Expect("b", ExpectData), Expect("c", ExpectData) }

KeyChoices == {<<>>, <<"f">>, <<"h$0">>, <<"g">>, <<"f", "g">>}
ArgChoices == {<<>>, <<"x">>, <<"y">>, <<"x", "y">>}

TableStatements ==
    {Add(t, k, a, r) : t \in {"t0", "tX"}, k \in KeyChoices,
                       a \in {"a0", "a1", "a2", "aX", ""}, r \in ArgChoices}
    \cup {SetDefault(t, a, r) : t \in {"t0", "tX"},
                                a \in {"a0", "a1", "a2", "aX"}, r \in ArgChoices}

\* the words add statements have after the table name
PrioWords == {"1", "9999", "10001", "5x", "x5"}

PriorityStatements ==
    {AddPrio("t0", w, k, a, <<"x">>) :
        w \in PrioWords, k \in {<<>>, <<"f">>, <<"g">>}, a \in {"a0", ""}}

StfFiles ==
    SeqsUpTo(MixedStatements, MaxStfLines)
    \cup SeqsUpTo(InterfaceStatements, MaxInterfaceLines)
    \cup {<<s>> : s \in TableStatements \cup PriorityStatements}

LeaseIdle ==
    /\ gpc = [p \in Callers |-> "idle"]
    /\ tries = [p \in Callers |-> 0]
    /\ rand = [p \in Callers |-> None]
    /\ made = [p \in Callers |-> 0]
    /\ collisions = [p \in Callers |-> 0]

RunIdle ==
    /\ rpc = "generate_model_inputs"
    /\ ln = 1
    /\ interfaces = [i \in Ifaces |-> "absent"]
    /\ expected = [i \in Ifaces |-> <<>>]
    /\ packetDelay = 0
    /\ sw = "none"
    /\ swRet = None
    /\ cli = "none"
    /\ cliStdin = "none"
    /\ cliRet = None
    /\ exc = ""
    /\ retval = None
    /\ runResult = None
    /\ checked = FALSE
    /\ checkResult = None
    /\ modelResult = None
    /\ trace = <<>>

CompareIdle ==
    /\ cmpExpected = <<>>
    /\ cmpReceived = <<>>
    /\ cmpResult = None

VerifyIdle ==
    /\ verExpected = <<>>
    /\ verFiles = <<>>
    /\ verOutcome = NotCalled

MaskIdle ==
    /\ mskValue = <<>>
    /\ mskConcrete = <<>>
    /\ mskResult = NotCalled

TranslateIdle ==
    /\ trStatement = Blank
    /\ trResult = NotCalled

TimeoutIdle ==
    /\ toArgs = [stderr |-> FALSE, verbose |-> FALSE]
    /\ tmain = "idle"
    /\ status = None
    /\ tlog = {}
    /\ twatcher = "unstarted"
    /\ process = "None"
    /\ child = "none"
    /\ returncode = None
    /\ toResult = NotCalled
    /\ toExc = ""

\* the parts of the program that a specification leaves alone
UnitIdle == VerifyIdle /\ MaskIdle /\ TranslateIdle /\ TimeoutIdle

\* run_model on some STF file, RunBMV2 just constructed; the lock directories
\* of the other runs are either all free or all taken
Init ==
    /\ stf \in StfFiles
    /\ RunIdle
    /\ locks \in {{}, Range}
    /\ LeaseIdle
    /\ CompareIdle
    /\ UnitIdle

Next ==
    \/ GenerateModelInputsLine
    \/ GenerateModelInputsReturn
    \/ RunGenerate
    \/ RunNoPort
    \/ LaunchSwitch
    \/ OpenInterface
    \/ LaunchCli
    \/ StreamLine
    \/ CloseCliStdin
    \/ CloseInterfaces
    \/ CliWait
    \/ SwitchTerminate
    \/ SwitchWait
    \/ Finally
    \/ RunModelReturnsFailure
    \/ RunModelChecksOutputs

Spec == Init /\ [][Next]_vars

\* ------------------------------------------ specification: the lease alone
\* NumCallers processes, each calling generate() once and, when it got an
\* integer, release() on it some time later.

InitLease ==
    /\ locks = {}
    /\ LeaseIdle
    /\ stf = <<>>
    /\ RunIdle
    /\ CompareIdle
    /\ UnitIdle

CallerGenerates ==
    /\ \E p \in Callers : Generate(p)
    /\ UNCHANGED <<runVars, cmpVars, unitVars>>

CallerReleases ==
    /\ \E p \in Callers : Release(p)
    /\ UNCHANGED <<runVars, cmpVars, unitVars>>

NextLease == CallerGenerates \/ CallerReleases

SpecLease == InitLease /\ [][NextLease]_vars

\* generate() always goes on: time.sleep(1) returns and the loop continues.
\* Nothing is assumed about when a holder releases.
SpecLeaseFair ==
    /\ InitLease
    /\ [][NextLease]_vars
    /\ \A p \in Callers : WF_vars(Generate(p) /\ UNCHANGED <<runVars, cmpVars, unitVars>>)

\* ------------------------------------- specification: comparePacket alone
\* comparePacket applied once to an expected pattern and a captured packet.

\* the length of the expected patterns
MaxPatternLen == 3
\* the length of the captured packets, in bytes
MaxPacketBytes == 2

PatternChars == {"A", "B", "b", "*"}
\* 0xAA, 0xAB, 0xBA
ByteValues == {170, 171, 186}

InitCompare ==
    /\ cmpExpected \in SeqsUpTo(PatternChars, MaxPatternLen)
    /\ cmpReceived \in SeqsUpTo(ByteValues, MaxPacketBytes)
    /\ cmpResult = None
    /\ locks = {}
    /\ LeaseIdle
    /\ stf = <<>>
    /\ RunIdle
    /\ UnitIdle

ComparePacketCall ==
    /\ cmpResult = None
    /\ cmpResult' = comparePacket(cmpExpected, cmpReceived)
    /\ UNCHANGED <<cmpExpected, cmpReceived, leaseVars, runVars, unitVars>>

NextCompare == ComparePacketCall

SpecCompare == InitCompare /\ [][NextCompare]_vars

\* -------------------------------------- specification: checkOutputs alone
\* checkOutputs applied once to the expectations a run registered and the
\* capture files the engine left behind.

\* the number of patterns expected on an interface, and of packets in a file
MaxPackets == 2

VerifyIfaces == {"a", "b"}
\* AB.. and BA
ExpectPatterns == {<<"A", "*">>, <<"B", "A">>}
\* 0xAB, 0xBA
CapturedPackets == {<<171>>, <<186>>}

CaptureFiles ==
    { CaptureFile("missing", <<>>), CaptureFile("corrupt", <<>>),
      CaptureFile("empty", <<>>) }
    \cup {CaptureFile("ok", q) : q \in SeqsUpTo(CapturedPackets, MaxPackets)}

\* self.expected has a key for the interfaces of the expect statements only,
\* each with at least one pattern
InitVerify ==
    /\ \E D \in SUBSET VerifyIfaces :
        /\ verExpected \in [D -> SeqsUpTo(ExpectPatterns, MaxPackets) \ {<<>>}]
        /\ verFiles \in [D -> CaptureFiles]
    /\ verOutcome = NotCalled
    /\ locks = {}
    /\ LeaseIdle
    /\ stf = <<>>
    /\ RunIdle
    /\ CompareIdle
    /\ MaskIdle
    /\ TranslateIdle
    /\ TimeoutIdle

CheckOutputsCall ==
    /\ verOutcome = NotCalled
    /\ \E order \in Orders(DOMAIN verExpected) :
        verOutcome' = Ended(checkOutputs(order, verExpected, verFiles))
    /\ UNCHANGED <<verExpected, verFiles, leaseVars, runVars, cmpVars, maskVars,
                   trVars, toVars>>

NextVerify == CheckOutputsCall

SpecVerify == InitVerify /\ [][NextVerify]_vars

\* ------------------------------------------ specification: makeMask alone
\* makeMask applied once to a value; mskConcrete is a digit string of the
\* same radix and length, against which the returned mask is read.

\* the number of digits of the values
MaxDigits == 2

Prefixes == {"0x", "0b", "0o", ""}

\* some digits of each radix
RadixDigits(prefix) ==
    CASE prefix = "0x" -> {"0", "9", "A", "F"}
      [] prefix = "0b" -> {"0", "1"}
      [] prefix = "0o" -> {"0", "7"}
      [] OTHER -> {"0", "9"}

InitMask ==
    /\ \E prefix \in Prefixes, n \in 0 .. MaxDigits, ternary \in BOOLEAN :
        /\ \E digits \in [1 .. n -> RadixDigits(prefix) \cup {"*"}] :
            mskValue = [value |-> Value(prefix, digits), ternary |-> ternary]
        /\ mskConcrete \in [1 .. n -> RadixDigits(prefix)]
    /\ mskResult = NotCalled
    /\ locks = {}
    /\ LeaseIdle
    /\ stf = <<>>
    /\ RunIdle
    /\ CompareIdle
    /\ VerifyIdle
    /\ TranslateIdle
    /\ TimeoutIdle

MakeMaskCall ==
    /\ mskResult = NotCalled
    /\ mskResult' = Ended(makeMask(mskValue.value, mskValue.ternary))
    /\ UNCHANGED <<mskValue, mskConcrete, leaseVars, runVars, cmpVars, verVars,
                   trVars, toVars>>

NextMask == MakeMaskCall

SpecMask == InitMask /\ [][NextMask]_vars

\* ------------------------------------ specification: the translator alone
\* parse_table_add or parse_table_set_default applied once to a statement.

InitTranslate ==
    /\ trStatement \in TableStatements \cup PriorityStatements
    /\ trResult = NotCalled
    /\ locks = {}
    /\ LeaseIdle
    /\ stf = <<>>
    /\ RunIdle
    /\ CompareIdle
    /\ VerifyIdle
    /\ MaskIdle
    /\ TimeoutIdle

TranslateCall ==
    /\ trResult = NotCalled
    /\ trResult' = Ended(Translate(trStatement))
    /\ UNCHANGED <<trStatement, leaseVars, runVars, cmpVars, verVars, maskVars,
                   toVars>>

NextTranslate == TranslateCall

SpecTranslate == InitTranslate /\ [][NextTranslate]_vars

\* ------------------------------------------ specification: run_timeout
\* One call of run_timeout; the two threads and the spawned process take
\* their steps in any order, and thread.join(timeout) may return at any time.

InitTimeout ==
    /\ toArgs \in [stderr : BOOLEAN, verbose : BOOLEAN]
    /\ tmain = "idle"
    /\ twatcher = "unstarted"
    /\ process = "None"
    /\ child = "none"
    /\ status = None
    /\ returncode = None
    /\ toResult = NotCalled
    /\ toExc = ""
    /\ tlog = {}
    /\ locks = {}
    /\ LeaseIdle
    /\ stf = <<>>
    /\ RunIdle
    /\ CompareIdle
    /\ VerifyIdle
    /\ MaskIdle
    /\ TranslateIdle

Others == <<leaseVars, runVars, cmpVars, verVars, maskVars, trVars>>

NextTimeout ==
    \/ ThreadStart /\ UNCHANGED Others
    \/ TargetOpenStderr /\ UNCHANGED Others
    \/ TargetPopen /\ UNCHANGED Others
    \/ TargetAssign /\ UNCHANGED Others
    \/ ChildExits /\ UNCHANGED Others
    \/ TargetWait /\ UNCHANGED Others
    \/ JoinTimeout /\ UNCHANGED Others
    \/ IsAlive /\ UNCHANGED Others
    \/ Terminate /\ UNCHANGED Others
    \/ Join /\ UNCHANGED Others
    \/ Return /\ UNCHANGED Others

SpecTimeout == InitTimeout /\ [][NextTimeout]_vars

\* ------------------------------------------------------------------ claims

held(p) == gpc[p] = "held"

\* C1: no integer is held by two live callers at the same time, whatever the
\* interleaving of generate() and release(); a held integer has its marker.
C1_MutualExclusion ==
    /\ \A p, q \in Callers : (p # q /\ held(p) /\ held(q)) => rand[p] # rand[q]
    /\ \A p \in Callers : held(p) => lockName(rand[p]) \in locks

\* two callers hold a lease at the same time, one of them after colliding
C1_Witness ==
    \E p, q \in Callers :
        p # q /\ held(p) /\ held(q) /\ collisions[p] > 0

\* C2 (as claimed): with NumCallers <= MaxInt + 1, no caller ends without
\* a lease.
C2_EveryCallerObtains ==
    NumCallers <= MaxInt + 1 => \A p \in Callers : gpc[p] # "exhausted"

\* C2 (amended): every call of generate() ends; it ends either with an
\* integer, or without one after Tries tries that each hit an existing marker.
C2_EndsWithLeaseOrAfterTenCollisions ==
    \A p \in Callers :
        <>(\/ gpc[p] = "held"
           \/ (gpc[p] = "exhausted" /\ collisions[p] = Tries /\ made[p] = 0))

\* a caller ended without a lease although NumCallers <= MaxInt + 1
C2_Witness ==
    \E p, q \in Callers :
        /\ NumCallers <= MaxInt + 1
        /\ gpc[p] = "exhausted" /\ collisions[p] = Tries
        /\ gpc[q] \in {"held", "released"}

\* the number of entries of the history with the given name
Count(ev) == Len(SelectSeq(trace, LAMBDA e : e.ev = ev))

Happened(ev) == Count(ev) > 0

\* run() is over: it returned or it let an exception through
RunOver == rpc \in {"run_returned", "done", "raised"}

\* C3: once run() has acquired a lease, the lease is released exactly once
\* before run() returns or propagates an exception, on every exit path; it is
\* held until then and never released twice.
C3_LeaseReleasedOnEveryExit ==
    /\ (RunOver /\ made[Main] > 0) =>
           /\ gpc[Main] = "released"
           /\ lockName(rand[Main]) \notin locks
           /\ Count("release") = 1
    /\ (~ RunOver /\ made[Main] > 0) => (held(Main) /\ Count("release") = 0)
    /\ Count("release") <= made[Main]

\* run() let an exception through after the engine was started, lease released
C3_Witness ==
    /\ rpc = "raised"
    /\ exc # ""
    /\ sw = "running"
    /\ made[Main] = 1
    /\ gpc[Main] = "released"

\* the interface names of the packet and expect statements, in file order
RECURSIVE InterfaceNames(_)
InterfaceNames(file) ==
    IF file = <<>> THEN <<>>
    ELSE IF Head(file).op \in {"packet", "expect"}
         THEN <<Head(file).iface>> \o InterfaceNames(Tail(file))
         ELSE InterfaceNames(Tail(file))

\* a sequence of names with every repetition of an earlier name removed
RECURSIVE FirstAppearances(_)
FirstAppearances(names) ==
    IF names = <<>> THEN <<>>
    ELSE LET before == FirstAppearances(SubSeq(names, 1, Len(names) - 1))
             last == names[Len(names)]
         IN  IF last \in SeqToSet(before) THEN before ELSE Append(before, last)

\* the interfaces whose fifo was created, in the order of the mkfifo calls
Created ==
    LET made_ == SelectSeq(trace, LAMBDA e : e.ev = "mkfifo")
    IN  [k \in DOMAIN made_ |-> made_[k].iface]

\* C4: generate_model_inputs creates the fifo of every interface named by a
\* packet or expect statement exactly once, in first-appearance order.
C4_CreationOrder ==
    /\ rpc = "generate_model_inputs" =>
           Created = FirstAppearances(InterfaceNames(SubSeq(stf, 1, ln - 1)))
    /\ rpc # "generate_model_inputs" =>
           Created = FirstAppearances(InterfaceNames(stf))

\* the file names b, a, b, c and the fifos were created in the order b, a, c
C4_Witness ==
    /\ InterfaceNames(stf) = <<"b", "a", "b", "c">>
    /\ rpc # "generate_model_inputs"
    /\ Created = <<"b", "a", "c">>

\* the lines of the file run() has to issue: add, setdefault, packet
IssuedLines(file) ==
    {i \in DOMAIN file : file[i].op \in {"add", "setdefault", "packet"}}

\* what was written to the CLI and to the interfaces, in order
Emitted == SelectSeq(trace, LAMBDA e : e.ev \in {"cli_write", "packet"})

\* C5: what run() writes to the control client and to the interfaces is the
\* add/setdefault/packet statements of the file from top to bottom, none
\* skipped, repeated or reordered (all of them once the file is at its end),
\* and every command written before a packet was flushed before that packet.
C5_SourceOrderStreaming ==
    /\ \A k \in DOMAIN Emitted :
        /\ Emitted[k].line \in IssuedLines(stf)
        /\ Cardinality({i \in IssuedLines(stf) : i <= Emitted[k].line}) = k
        /\ LET s == stf[Emitted[k].line] IN
            IF Emitted[k].ev = "packet"
            THEN s.op = "packet" /\ s.iface = Emitted[k].iface
            ELSE s.op \in {"add", "setdefault"}
    /\ Happened("close_stdin") => Len(Emitted) = Cardinality(IssuedLines(stf))
    /\ \A k \in DOMAIN trace : \A j \in 1 .. k - 1 :
        (trace[k].ev = "packet" /\ trace[j].ev = "cli_write") =>
            \E f \in j + 1 .. k - 1 :
                trace[f].ev = "cli_flush" /\ trace[f].line = trace[j].line

\* a file with a command before a packet was streamed to its end
C5_Witness ==
    /\ Happened("close_stdin")
    /\ Len(stf) = 3
    /\ stf[1].op = "add" /\ stf[2].op = "packet" /\ stf[3].op = "setdefault"
    /\ Len(Emitted) = 3

\* the exceptions translating an add or setdefault statement raises for an
\* unknown table, key field, action or argument
DescriptorErrors ==
    {"Could not find table", "Unexpected key field", "KeyError",
     "Unexpected action arg"}

\* an add or setdefault statement that names an unknown table
UnknownTable(s) == s.op \in {"add", "setdefault"} /\ s.table \notin TableNames

\* an add or setdefault statement on a known table that names a key field
\* the table does not declare, an action the table does not have, or an
\* argument the action does not declare
ReferencesUnknown(s) ==
    /\ s.op \in {"add", "setdefault"}
    /\ s.table \in TableNames
    /\ \/ \E i \in DOMAIN s.keys :
              \A j \in DOMAIN TableFields(s.table) :
                  TableFields(s.table)[j] # ArrayRewrite(s.keys[i])
       \/ s.action # "" /\ s.action \notin DOMAIN TableActions(s.table)
       \/ /\ s.action \in DOMAIN TableActions(s.table)
          /\ \E i \in DOMAIN s.args :
              \A a \in DOMAIN ProgramActions[TableActions(s.table)[s.action] + 1].args :
                  ProgramActions[TableActions(s.table)[s.action] + 1].args[a] # s.args[i]

\* C6 (as claimed): when the file has an add or setdefault statement naming
\* an unknown table, key field, action or argument, or when generate()
\* returned None, neither process is ever started.
C6_NoProcessBeforeValidation ==
    (\/ \E i \in DOMAIN stf : UnknownTable(stf[i]) \/ ReferencesUnknown(stf[i])
     \/ gpc[Main] = "exhausted")
        => (sw = "none" /\ cli = "none")

\* C6 (amended): when generate() returned None, run() returns FAILURE and
\* neither process is ever started; an unknown table, key field, action or
\* argument is found only while the statements are streamed, when both
\* processes have been started.
C6_NoProcessWithoutLease ==
    /\ gpc[Main] = "exhausted" =>
        /\ sw = "none" /\ cli = "none"
        /\ RunOver => runResult = FAILURE
        /\ rpc = "done" => modelResult = FAILURE
    /\ exc \in DescriptorErrors => (sw # "none" /\ cli # "none")

\* the run ended on an unknown name, with both processes started
C6_Witness ==
    /\ rpc = "raised"
    /\ exc \in DescriptorErrors
    /\ \E i \in DOMAIN stf : UnknownTable(stf[i]) \/ ReferencesUnknown(stf[i])
    /\ sw = "running"
    /\ cli = "running"

\* C7: translating an add or setdefault statement that names an unknown key
\* field, action or argument ends in an error: no command of that line is
\* written to the CLI, the streaming never gets past the line, and a run that
\* got to the line ends with an exception.
C7_UnknownNamesRaise ==
    \A i \in DOMAIN stf :
        ReferencesUnknown(stf[i]) =>
            /\ \A k \in DOMAIN trace :
                   ~ (trace[k].ev = "cli_write" /\ trace[k].line = i)
            /\ rpc = "stream" => ln <= i
            /\ ~ Happened("close_stdin")
            /\ (RunOver /\ Happened("launch_cli")) => (rpc = "raised" /\ exc # "")
            /\ Translate(stf[i]).err # ""

\* a statement with an unknown key field, action or argument was reached
\* and the run ended with its exception
C7_Witness ==
    /\ rpc = "raised"
    /\ exc \in {"Unexpected key field", "KeyError", "Unexpected action arg"}
    /\ ReferencesUnknown(stf[1])
    /\ Happened("launch_cli")

\* C8: if the CLI exits with a nonzero code, run() returns FAILURE, run_model
\* returns FAILURE and checkOutputs is never executed; a CLI that exited
\* before cli.wait() never lets the run succeed either.
C8_CliFailureAbortsRun ==
    (cli = "exited" /\ cliRet # 0) =>
        /\ ~ checked
        /\ runResult # SUCCESS
        /\ modelResult # SUCCESS
        /\ cliRet # None =>
            /\ rpc \in {"finally", "run_returned", "done"}
            /\ rpc = "run_returned" => runResult = FAILURE
            /\ rpc = "done" => (runResult = FAILURE /\ modelResult = FAILURE)

\* run_model returned FAILURE after the CLI exited with code 1
C8_Witness ==
    /\ rpc = "done"
    /\ cliRet = 1
    /\ modelResult = FAILURE
    /\ ~ checked

\* C9: when the CLI exited with 0 and the engine ended with a return code
\* other than -15, run() returns SUCCESS, run_model executes checkOutputs and
\* returns what checkOutputs returned.
C9_SwitchExitCodeNotFatal ==
    (cliRet = 0 /\ swRet # None /\ swRet # SigTerm) =>
        /\ rpc \in {"finally", "run_returned", "done", "raised"}
        /\ rpc = "run_returned" => runResult = SUCCESS
        /\ rpc \in {"done", "raised"} => (runResult = SUCCESS /\ checked)
        /\ rpc = "done" => (checkResult # None /\ modelResult = checkResult)

\* the engine ended with code 1 and run_model returned checkOutputs' SUCCESS
C9_Witness ==
    /\ rpc = "done"
    /\ cliRet = 0
    /\ swRet = 1
    /\ checked
    /\ ExpectedInterfaces # {}
    /\ modelResult = SUCCESS

\* C10: comparePacket succeeds exactly when the received hex string is at
\* least as long as the expected pattern and every position of the pattern
\* holds '*' or the received character; what follows the pattern's length in
\* the received string plays no part, and a shorter received string fails.
C10_WildcardComparison ==
    cmpResult # None =>
        LET e == Upper(cmpExpected)
            r == ByteToHex(cmpReceived)
        IN  /\ cmpResult \in {SUCCESS, FAILURE}
            /\ (cmpResult = SUCCESS) <=>
                   (/\ Len(r) >= Len(e)
                    /\ \A i \in 1 .. Len(e) : e[i] = "*" \/ e[i] = r[i])
            /\ Len(r) < Len(e) => cmpResult = FAILURE

\* a pattern with a wildcard matched a longer received packet
C10_Witness ==
    /\ cmpResult = SUCCESS
    /\ cmpExpected = <<"A", "*", "B">>
    /\ cmpReceived = <<171, 186>>

\* the packets checkOutputs takes from a capture file
Captured(file) == IF file.state = "empty" THEN <<>> ELSE file.packets

\* the capture file of an interface holds what was expected on it
InterfaceMatches(exp, file) ==
    /\ file.state \in {"empty", "ok"}
    /\ Len(exp) = Len(Captured(file))
    /\ \A i \in DOMAIN exp : comparePacket(exp[i], Captured(file)[i]) = SUCCESS

\* C11: checkOutputs returns SUCCESS exactly when, on every interface with
\* expectations, as many packets were captured as patterns are expected and
\* the i-th packet matches the i-th pattern; one failing interface makes it
\* return FAILURE; a capture file of size 0 is read as zero packets (a count
\* mismatch against the expectations), not as a corrupt file or an exception.
C11_OutputVerdict ==
    verOutcome # NotCalled =>
        LET r == verOutcome[1]
            D == DOMAIN verExpected
        IN  /\ (r.exc = "" /\ r.ret = SUCCESS) <=>
                   (\A i \in D : InterfaceMatches(verExpected[i], verFiles[i]))
            /\ r.exc = "" => r.ret \in {SUCCESS, FAILURE}
            /\ (r.exc = "" /\ r.ret = FAILURE) =>
                   \E i \in D : ~ InterfaceMatches(verExpected[i], verFiles[i])
            /\ (\A i \in D : \/ verFiles[i].state = "empty"
                             \/ InterfaceMatches(verExpected[i], verFiles[i]))
                   => (r.exc = "" /\ r.msg \in {"", "Expected packets"})

\* two interfaces, one with two expected patterns, matched by their files
C11_Witness ==
    /\ verOutcome = Ended(Returns(SUCCESS, ""))
    /\ DOMAIN verExpected = VerifyIfaces
    /\ \E i \in VerifyIfaces : Len(verExpected[i]) = 2
    /\ \E i \in VerifyIfaces : verFiles[i].packets = << <<186>> >>

\* the number a digit stands for
DigitValue(c) == (CHOOSE i \in DOMAIN HexDigits : HexDigits[i] = c) - 1

\* bitwise AND of two digit values
RECURSIVE BitAnd(_, _)
BitAnd(a, b) ==
    IF a = 0 \/ b = 0 THEN 0
    ELSE (a % 2) * (b % 2) + 2 * BitAnd(a \div 2, b \div 2)

\* c AND mask = value AND mask, digit by digit
AgreesUnderMask(c, value, mask) ==
    \A i \in DOMAIN c :
        BitAnd(DigitValue(c[i]), DigitValue(mask[i]))
            = BitAnd(DigitValue(value[i]), DigitValue(mask[i]))

\* c matches v, a '*' of v standing for any digit
WildcardMatch(c, v) == \A i \in DOMAIN c : v[i] = "*" \/ v[i] = c[i]

\* C12: for a value with prefix 0x, 0b or 0o, makeMask(v, ternary = true)
\* gives prefix value &&& prefix mask, value being v's digits with every '*'
\* replaced by 0, and a concrete digit string c of the same length agrees
\* with value under mask exactly when c matches v with its wildcards; hex
\* digits A-F included.
C12_MaskMatchesWildcards ==
    (/\ mskResult # NotCalled
     /\ mskValue.ternary
     /\ mskValue.value.prefix \in {"0x", "0b", "0o"}) =>
        LET r == mskResult[1]
            v == mskValue.value
        IN  /\ r.err = "" /\ r.masked
            /\ r.prefix = v.prefix
            /\ r.value = [i \in DOMAIN v.digits |->
                             IF v.digits[i] = "*" THEN "0" ELSE v.digits[i]]
            /\ AgreesUnderMask(mskConcrete, r.value, r.mask)
                   <=> WildcardMatch(mskConcrete, v.digits)

\* a word made of decimal digits only
PureInteger(word) ==
    /\ Chars(word) # <<>>
    /\ \A i \in DOMAIN Chars(word) : Chars(word)[i] \in DecimalDigits

\* the statement with the word after the table name read as its first key
\* assignment
WordAsKey(s) ==
    IF s.prio = "" THEN s
    ELSE [s EXCEPT !.prio = "", !.keys = <<s.prio>> \o s.keys]

\* C13: in an add statement the word after the table name is taken as a
\* priority only when it is made of decimal digits only, and then the command
\* ends with 10000 - p; any other word is read as the first key assignment or
\* the action, and the command ends with an empty priority.
C13_PriorityOnlyForIntegers ==
    (trResult # NotCalled /\ trStatement.op = "add") =>
        LET r == trResult[1]
            s == trStatement
        IN  IF PureInteger(s.prio)
            THEN r.err = "" => r.prio = <<10000 - DecimalValue(Chars(s.prio))>>
            ELSE /\ r.prio = <<>>
                 /\ r = parse_table_add(WordAsKey(s))

\* the interfaces whose fifo run() has opened, in the order of the opening
Opened ==
    LET opens == SelectSeq(trace, LAMBDA e : e.ev = "open")
    IN  [k \in DOMAIN opens |-> opens[k].iface]

\* C14 (as claimed): run() opens the fifos in the order in which
\* generate_model_inputs created them, the order of first appearance.
C14_OpenInCreationOrder ==
    /\ Len(Opened) <= Len(Created)
    /\ \A k \in DOMAIN Opened : k <= Len(Created) => Opened[k] = Created[k]

\* C14 (amended): run() opens the fifos of the declared interfaces in the
\* ascending order of their names, every one of them once before the CLI is
\* started, whatever the order in which they first appear in the file.
C14_OpenInSortedOrder ==
    /\ \A j, k \in DOMAIN Opened :
           j < k => IfaceRank(Opened[j]) < IfaceRank(Opened[k])
    /\ SeqToSet(Opened) \subseteq SeqToSet(Created)
    /\ \A i \in SeqToSet(Created) \ SeqToSet(Opened) :
           \A k \in DOMAIN Opened : IfaceRank(Opened[k]) < IfaceRank(i)
    /\ Happened("launch_cli") => SeqToSet(Opened) = SeqToSet(Created)

\* the fifos were created in the order b, a and opened in the order a, b
C14_Witness ==
    /\ Created = <<"b", "a">>
    /\ Opened = <<"a", "b">>

\* the phase of the start-up an entry of the history belongs to
Phase(e) ==
    CASE e.ev = "mkfifo" -> 1
      [] e.ev \in {"arg", "launch_switch"} -> 2
      [] e.ev \in {"open", "header"} -> 3
      [] e.ev = "launch_cli" -> 4
      [] e.ev \in {"cli_write", "cli_flush", "packet"} -> 5
      [] OTHER -> 6

\* the history has an entry of the given name and interface before position k
Before(k, ev, iface) ==
    \E j \in 1 .. k - 1 : trace[j].ev = ev /\ trace[j].iface = iface

\* C15: the fifos of all the interfaces the file names are created before the
\* engine is started; the lease is held when the engine is started; no fifo
\* is opened before the engine is started; the CLI is started only after
\* every declared interface was opened and got its header; no packet is
\* written to an interface before its header.  The phases come in this order
\* only and the run never goes back to an earlier one.
C15_StartupOrder ==
    /\ \A j, k \in DOMAIN trace : j < k => Phase(trace[j]) <= Phase(trace[k])
    /\ Count("launch_switch") <= 1 /\ Count("launch_cli") <= 1
    /\ \A k \in DOMAIN trace :
        /\ trace[k].ev = "launch_switch" =>
               \A i \in SeqToSet(InterfaceNames(stf)) : Before(k, "mkfifo", i)
        /\ trace[k].ev = "open" => Before(k, "launch_switch", "")
        /\ trace[k].ev = "header" => Before(k, "open", trace[k].iface)
        /\ trace[k].ev = "launch_cli" =>
               \A i \in SeqToSet(InterfaceNames(stf)) :
                   Before(k, "open", i) /\ Before(k, "header", i)
        /\ trace[k].ev = "packet" => Before(k, "header", trace[k].iface)
    /\ Happened("launch_switch") => made[Main] = 1
    /\ (Happened("launch_switch") /\ ~ Happened("release")) => held(Main)
    /\ sw # "none" <=> Happened("launch_switch")
    /\ cli # "none" <=> Happened("launch_cli")

\* a packet was written in a run with two interfaces
C15_Witness ==
    /\ Happened("packet")
    /\ Cardinality(SeqToSet(Opened)) = 2
    /\ Happened("launch_cli")

\* the names of the entries of the history from the first cli.stdin.close() on
Drain ==
    LET first == CHOOSE k \in DOMAIN trace :
                     /\ trace[k].ev = "close_stdin"
                     /\ \A j \in 1 .. k - 1 : trace[j].ev # "close_stdin"
        tail == SubSeq(trace, first, Len(trace))
    IN  [k \in DOMAIN tail |-> tail[k].ev]

\* position of the first entry of the given name in the history (0: none)
Position(ev) ==
    IF Happened(ev)
    THEN CHOOSE k \in DOMAIN trace :
             trace[k].ev = ev /\ \A j \in 1 .. k - 1 : trace[j].ev # ev
    ELSE 0

\* e1 does not happen unless e2 happened before it
Follows(e1, e2) ==
    Happened(e1) => (Happened(e2) /\ Position(e2) < Position(e1))

\* C16 (as claimed): after the last statement run() closes the CLI's input,
\* waits for the CLI to exit, closes the interfaces, waits the grace delay,
\* terminates the engine and waits for it, in this order.
C16_DrainOrderAsClaimed ==
    /\ Follows("cli_wait", "close_stdin")
    /\ Follows("close_interfaces", "cli_wait")
    /\ Follows("sleep", "close_interfaces")
    /\ Follows("terminate", "sleep")
    /\ Follows("sw_wait", "terminate")

IsPrefix(q, full) == Len(q) <= Len(full) /\ q = SubSeq(full, 1, Len(q))

\* C16 (amended): after the last statement run() closes the CLI's input,
\* closes every interface, waits for the CLI to exit and then, when the CLI
\* exited with 0, waits the grace delay, terminates the engine and waits for
\* it; after a nonzero exit code only the lease is released.
C16_DrainOrder ==
    /\ Happened("close_stdin") =>
        /\ rpc # "stream" /\ ln > Len(stf)
        /\ \/ IsPrefix(Drain, <<"close_stdin", "close_interfaces", "cli_wait",
                                "sleep", "terminate", "sw_wait", "release">>)
           \/ /\ cliRet \notin {None, 0}
              /\ Drain = <<"close_stdin", "close_interfaces", "cli_wait",
                           "release">>
    /\ Happened("close_interfaces") => \A i \in Ifaces : interfaces[i] # "open"
    /\ \A ev \in {"close_interfaces", "cli_wait", "sleep", "terminate", "sw_wait"} :
           Happened(ev) => Happened("close_stdin")
    /\ Happened("terminate") => cliRet = 0

\* the engine was terminated and waited for in a run with an interface
C16_Witness ==
    /\ Happened("sw_wait")
    /\ Opened # <<>>
    /\ rpc = "run_returned"

\* C17: whenever run() ends after the engine was started, the engine was
\* asked to terminate and every interface that was opened is closed; no
\* engine is left running.
C17_EngineCleanedUp ==
    (RunOver /\ Happened("launch_switch")) =>
        /\ Happened("terminate")
        /\ sw # "running"
        /\ \A i \in Ifaces : interfaces[i] # "open"

\* C18: a packet is written after a delay of 100 ms when an add or setdefault
\* command was sent to the CLI since the packet before it (since the start of
\* the run for the first packet), and without delay otherwise; the delay that
\* is pending depends on nothing else.
C18_SettlingDelay ==
    LET CommandSince(k) ==
            \E j \in 1 .. k - 1 :
                /\ trace[j].ev = "cli_write"
                /\ \A f \in j + 1 .. k - 1 : trace[f].ev # "packet"
    IN  /\ \A k \in DOMAIN trace :
            trace[k].ev = "packet" =>
                trace[k].delay = IF CommandSince(k) THEN 100 ELSE 0
        /\ packetDelay = IF CommandSince(Len(trace) + 1) THEN 100 ELSE 0

\* a packet written after a delay and a later packet written without one,
\* in a run that streamed the file to its end
C18_Witness ==
    /\ \E j, k \in DOMAIN trace :
        /\ j < k
        /\ trace[j].ev = "packet" /\ trace[j].delay = 100
        /\ trace[k].ev = "packet" /\ trace[k].delay = 0
    /\ Happened("close_stdin")

\* C19: a call of generate() makes at most Tries claim attempts; it returns
\* an integer of the range at the first attempt that creates its marker and
\* makes no attempt after it; it returns None only after Tries failed
\* attempts, having created no marker; it never creates two markers; and it
\* ends, whatever the other callers do.
C19_BoundedAcquisition ==
    /\ [](\A p \in Callers :
            /\ made[p] + collisions[p] <= Tries
            /\ made[p] <= 1
            /\ gpc[p] = "loop" => (made[p] = 0 /\ collisions[p] = tries[p])
            /\ gpc[p] \in {"held", "released"} =>
                   (made[p] = 1 /\ rand[p] \in Range)
            /\ gpc[p] = "held" => lockName(rand[p]) \in locks
            /\ gpc[p] = "exhausted" =>
                   (collisions[p] = Tries /\ made[p] = 0 /\ rand[p] = None))
    /\ \A p \in Callers :
           (gpc[p] = "loop") ~> (gpc[p] \in {"held", "released", "exhausted"})

\* a caller got its integer at the last of its attempts
C19_Witness ==
    \E p \in Callers : gpc[p] = "held" /\ collisions[p] = Tries - 1

\* C20: in every interleaving of the two threads, when the timeout elapses
\* with the process still alive, the process is terminated and the watcher
\* thread joined before run_timeout returns; run_timeout returns the
\* process's return code, or -1 when the process never started, and never
\* fails, in particular not because local.process is not yet set when the
\* timeout elapses.
C20_TimeoutAlwaysReturns ==
    /\ toExc = ""
    /\ tmain # "raised"
    /\ (tmain = "returned" /\ "timeout" \in tlog) =>
           ({"terminate", "joined"} \subseteq tlog /\ ThreadEnded)
    /\ tmain = "returned" =>
           toResult = Ended(IF child = "none" THEN -1 ELSE status)

\* the interfaces of the -i arguments the engine was started with, in order
EngineArgs ==
    LET args == SelectSeq(trace, LAMBDA e : e.ev = "arg")
    IN  [k \in DOMAIN args |-> args[k].iface]

\* C21: the engine is started with exactly one -i argument per declared
\* interface, none missing and none repeated, and run() opens the fifos in
\* the order of these arguments: what is opened so far is the beginning of
\* the argument list, and all of it once the CLI is started.
C21_OpenOrderIsArgumentOrder ==
    /\ ~ Happened("launch_switch") => EngineArgs = <<>>
    /\ Happened("launch_switch") =>
        /\ SeqToSet(EngineArgs) = SeqToSet(InterfaceNames(stf))
        /\ SeqToSet(EngineArgs) = Declared
        /\ \A j, k \in DOMAIN EngineArgs : j # k => EngineArgs[j] # EngineArgs[k]
    /\ IsPrefix(Opened, EngineArgs)
    /\ Happened("launch_cli") => Opened = EngineArgs

\* fifos made in the order c, b, a; engine arguments and openings a, b, c
C21_Witness ==
    /\ Created = <<"c", "b", "a">>
    /\ EngineArgs = <<"a", "b", "c">>
    /\ Opened = <<"a", "b", "c">>
    /\ Happened("launch_cli")
====
